---- MODULE Spec2Model ----
(***************************************************************************)
(* A model of the text-art renderers: the cfonts glyph-table renderer      *)
(* (src/src/cfonts-renderer.ts) and the bitmap rasterizer                  *)
(* (src/src/bitmap-renderer.ts).                                           *)
(*                                                                         *)
(* A JavaScript string is a sequence of one-character strings (UTF-16 code *)
(* units); the empty string is << >>.  null, undefined and a thrown        *)
(* exception are the one-element sequences NULL, UNDEFINED and THROW,      *)
(* which no string equals because their element is not one character.      *)
(* A character outside ASCII is written by its code point ("U+2588").       *)
(***************************************************************************)
EXTENDS Integers, Sequences, FiniteSets, TLC

VARIABLES CFONTS_DATA, pc, call, result, outputLines, appended, lookups,
          generator, unmappedPolicy, reused, firstFailed,
          isVisible, rendered, error, observing, cardText, cardPc,
          renderCalls, textChanges, lastResult, intersected,
          search, libraryFilter, displayedFonts,
          inputText, debouncedText, debounceTimerRef, timers, timerSeq, debouncePc, fired,
          cancelled, loadedFontsRef, loadedFonts, loadingProgress, isLoading,
          loaderPc, batchOffset, inflight, fontModules, progressUpdates,
          batchesStarted

\* the renderers' state and the call in progress
rendererVars == <<CFONTS_DATA, pc, call, result, outputLines, appended, lookups,
                  generator, unmappedPolicy, reused, firstFailed>>

\* one FontCard: its state, its text prop, its observer, what its effects did
cardVars == <<isVisible, rendered, error, observing, cardText, cardPc,
              renderCalls, textChanges, lastResult, intersected>>

\* App: search box, library tab and the memoized list
viewVars == <<search, libraryFilter, displayedFonts>>

\* App: the text input, its debounced copy and the timers of the page
debounceVars == <<inputText, debouncedText, debounceTimerRef, timers, timerSeq, debouncePc,
                  fired>>

\* App: the font loader
loaderVars == <<cancelled, loadedFontsRef, loadedFonts, loadingProgress, isLoading,
                loaderPc, batchOffset, inflight, fontModules, progressUpdates,
                batchesStarted>>

vars == <<rendererVars, cardVars, viewVars, debounceVars, loaderVars>>

NULL == <<"null">>
UNDEFINED == <<"undefined">>
THROW == <<"throw">>

(***************************************************************************)
(* Bounds of the model.                                                    *)
(***************************************************************************)
\* longest input text handed to renderCfonts
MaxLen == 2
\* largest row count (`lines`) of a font of the table
MaxLines == 2
\* longest input text handed to renderBitmap
MaxBitmapLen == 2

(***************************************************************************)
(* JavaScript primitives used by the renderers.                            *)
(***************************************************************************)
\* arr[i] with a zero-based index: undefined past the end of the array
At(arr, i) == IF (i + 1) \in DOMAIN arr THEN arr[i + 1] ELSE UNDEFINED

\* Or written with ??: only undefined falls back to d, '' is kept
Or_nullish(v, d) == IF v = UNDEFINED THEN d ELSE v

\* Or with the fallback forgotten
Or_none(v, d) == v

\* v || d on a string-or-undefined value: undefined and '' are falsy
Or(v, d) == IF v = UNDEFINED \/ v = << >> THEN d ELSE v

\* s += x, with an exception raised while computing x propagating
Concat(s, x) == IF s = THROW \/ x = THROW THEN THROW ELSE s \o x

Digits == {"0", "1", "2", "3", "4", "5", "6", "7", "8", "9"}

\* the number of digits of s starting at position i (\d+ is greedy)
RECURSIVE DigitRun(_, _)
DigitRun(s, i) == IF i <= Len(s) /\ s[i] \in Digits THEN 1 + DigitRun(s, i + 1) ELSE 0

\* length of the match of /<\/?c\d+>/ that starts at position i of s, or 0
TagLen(s, i) ==
    IF i > Len(s) \/ s[i] # "<" THEN 0
    ELSE LET j == IF i + 1 <= Len(s) /\ s[i + 1] = "/" THEN i + 2 ELSE i + 1
             d == DigitRun(s, j + 1)
         IN  IF j <= Len(s) /\ s[j] = "c" /\ d >= 1
                /\ j + d + 1 <= Len(s) /\ s[j + d + 1] = ">"
             THEN (j + d + 1) - i + 1
             ELSE 0

\* str.replace(/<\/?c\d+>/g, ''): one left-to-right pass, matches do not overlap
RECURSIVE StripFrom(_, _)
StripFrom(s, i) ==
    IF i > Len(s) THEN << >>
    ELSE IF TagLen(s, i) > 0 THEN StripFrom(s, i + TagLen(s, i))
    ELSE <<s[i]>> \o StripFrom(s, i + 1)

\* stripColorTags(str); calling .replace on undefined raises a TypeError
stripColorTags(str) == IF str = UNDEFINED THEN THROW ELSE StripFrom(str, 1)

\* the characters \s matches, among those of the model
Whitespace == {" ", "\t", "\n"}

\* TrimEnd written as /\s$/: only one whitespace character is dropped
TrimEnd_once(line) ==
    IF line # << >> /\ line[Len(line)] \in Whitespace
    THEN SubSeq(line, 1, Len(line) - 1)
    ELSE line

\* line.replace(/\s+$/, ''): drop the maximal run of whitespace at the end
RECURSIVE TrimEnd(_)
TrimEnd(line) ==
    IF line # << >> /\ line[Len(line)] \in Whitespace
    THEN TrimEnd(SubSeq(line, 1, Len(line) - 1))
    ELSE line

\* rows.join('\n')
RECURSIVE Join(_)
Join(rows) ==
    IF rows = << >> THEN << >>
    ELSE IF Len(rows) = 1 THEN rows[1]
    ELSE rows[1] \o <<"\n">> \o Join(Tail(rows))

\* String.prototype.toUpperCase on one code unit: 'a' -> 'A'; the sharp s
\* (written "sz") -> 'SS'; upper-case letters, digits and space unchanged
UpperChar(c) ==
    IF c = "a" THEN <<"A">>
    ELSE IF c = "sz" THEN <<"S", "S">>
    ELSE <<c>>

RECURSIVE toUpperCase(_)
toUpperCase(text) ==
    IF text = << >> THEN << >> ELSE UpperChar(Head(text)) \o toUpperCase(Tail(text))

(***************************************************************************)
(* The inputs: texts, and the fonts a glyph table can hold.                *)
(***************************************************************************)
TextChars == {"a", "A", " ", "sz"}

\* all sequences over S of length at most n
RECURSIVE SeqsUpTo(_, _)
SeqsUpTo(S, n) ==
    IF n = 0 THEN {<< >>}
    ELSE LET shorter == SeqsUpTo(S, n - 1)
         IN  shorter \cup {s \o <<x>> : s \in {t \in shorter : Len(t) = n - 1}, x \in S}

Texts == SeqsUpTo(TextChars, MaxLen)

\* rows a glyph entry may hold: a tagged character between a leading and a
\* trailing space, and the empty row
GlyphRows == { <<" ", "<", "c", "1", ">", "X", "<", "/", "c", "1", ">", " ">>,
               << >> }

\* rows a spacing template may hold: a space, empty, a tagged visible character
SpaceRows == { <<" ">>,
               << >>,
               <<"<", "c", "2", ">", "_", "<", "/", "c", "2", ">">> }

\* CfontsFont: chars, lines and letterspace (absent, or an array of rows).
\* The entry of 'A' and the template may have fewer rows than `lines`.
Fonts ==
    { [ lines |-> n,
        chars |-> [k \in {"A", "S"} |-> IF k = "A" THEN g ELSE [i \in 1..n |-> <<"S">>]],
        hasLetterspace |-> ls.has,
        letterspace |-> ls.rows ] :
      n \in 1..MaxLines,
      g \in SeqsUpTo(GlyphRows, MaxLines),
      ls \in {[has |-> FALSE, rows |-> << >>]}
             \cup {[has |-> TRUE, rows |-> r] : r \in SeqsUpTo(SpaceRows, MaxLines)} }

\* the data-model invariant of a font: every glyph entry, and the template when
\* there is one, has exactly `lines` rows
WellFormedFont(font) ==
    /\ \A ch \in DOMAIN font.chars : Len(font.chars[ch]) = font.lines
    /\ font.hasLetterspace => Len(font.letterspace) = font.lines

\* the fonts whose glyph of 'A' and whose template have at most `lines` rows
WellSizedFonts == {f \in Fonts : Len(f.chars["A"]) <= f.lines /\ Len(f.letterspace) <= f.lines}

\* the names a caller may pass: one of the table, one that is not
CfontNames == {"block"}
FontArgs == CfontNames \cup {"nofont"}

(***************************************************************************)
(* renderCfonts                                                            *)
(***************************************************************************)
\* CharFragment without the `continue` of the unmapped branch: the letter
\* spacing is appended after an unmapped character too
CharFragment_noContinue(font, input, charIdx, line) ==
    LET ch == input[charIdx + 1]
        own == IF ch \notin DOMAIN font.chars
               THEN IF font.hasLetterspace
                    THEN stripColorTags(IF At(font.letterspace, line) \in {UNDEFINED, << >>}
                                        THEN <<" ", " ">> ELSE At(font.letterspace, line))
                    ELSE <<" ", " ">>
               ELSE stripColorTags(IF At(font.chars[ch], line) = UNDEFINED
                                   THEN << >> ELSE At(font.chars[ch], line))
    IN  IF charIdx < Len(input) - 1 /\ font.hasLetterspace
        THEN own \o stripColorTags(IF At(font.letterspace, line) = UNDEFINED
                                   THEN << >> ELSE At(font.letterspace, line))
        ELSE own

\* what the loop body appends to outputLines[line] for input[charIdx]
CharFragment(font, input, charIdx, line) ==
    LET ch == input[charIdx + 1]
    IN  IF ch \notin DOMAIN font.chars
        THEN IF font.hasLetterspace
             THEN stripColorTags(Or(At(font.letterspace, line), <<" ", " ">>))
             ELSE <<" ", " ">>
        ELSE Concat(stripColorTags(Or(At(font.chars[ch], line), << >>)),
                    IF charIdx < Len(input) - 1 /\ font.hasLetterspace
                    THEN stripColorTags(Or(At(font.letterspace, line), << >>))
                    ELSE << >>)

\* outputLines[line] after the characters 0 .. n-1 of input
RECURSIVE RowAfter(_, _, _, _)
RowAfter(font, input, n, line) ==
    IF n = 0 THEN << >>
    ELSE Concat(RowAfter(font, input, n - 1, line), CharFragment(font, input, n - 1, line))

\* the accumulated rows when the loop over the input ends
BuildLines(font, input) == [i \in 1..font.lines |-> RowAfter(font, input, Len(input), i - 1)]

\* Finish with the trailing whitespace trimmed after the join instead of per row
Finish_trimJoined(rows) ==
    IF \E i \in DOMAIN rows : rows[i] = THROW THEN THROW
    ELSE LET joined == TrimEnd(Join(rows))
         IN  IF joined = << >> THEN NULL ELSE joined

\* outputLines.map(line => line.replace(/\s+$/, '')).join('\n'), then result || null
Finish(rows) ==
    IF \E i \in DOMAIN rows : rows[i] = THROW THEN THROW
    ELSE LET joined == Join([i \in DOMAIN rows |-> TrimEnd(rows[i])])
         IN  IF joined = << >> THEN NULL ELSE joined

\* CfontsInput without the case fold
CfontsInput_noFold(text) == text

\* const input = text.toUpperCase()
CfontsInput(text) == toUpperCase(text)

renderCfonts(table, text, fontName) ==
    IF fontName \notin DOMAIN table THEN NULL
    ELSE Finish(BuildLines(table[fontName], CfontsInput(text)))

(***************************************************************************)
(* The bitmap rasterizer.  The bitmapit package (defaultFont and           *)
(* BitmapFontGenerator) is declared in src/src/bitmapit.d.ts; its          *)
(* behaviour is the one section 4.2 of the specification describes.        *)
(***************************************************************************)
Style(n, on, off) == [name |-> n, onChar |-> on, offChar |-> off]

BITMAP_STYLES ==
    << Style("bitmap-block", "U+2588", " "),
       Style("bitmap-hash", "#", " "),
       Style("bitmap-dot", "U+25CF", "U+00B7"),
       Style("bitmap-star", "U+2605", "U+00B7"),
       Style("bitmap-at", "@", " "),
       Style("bitmap-slash", "/", " "),
       Style("bitmap-zero-one", "1", "0"),
       Style("bitmap-braille", "U+28FF", "U+2800"),
       Style("bitmap-shade", "U+2591", " "),
       Style("bitmap-cross", "U+256C", " ") >>

BITMAP_STYLE_NAMES == {BITMAP_STYLES[k].name : k \in DOMAIN BITMAP_STYLES}

\* the style names a caller may pass: those of BITMAP_STYLES and one that is not
StyleArgs == BITMAP_STYLE_NAMES \cup {"nostyle"}

\* new BitmapFontGenerator({ width: 8, height: 8, spacing: 1 })
GenWidth == 8
GenHeight == 8
GenSpacing == 1

\* the package's pixel font: a GenHeight x GenWidth on/off pattern per character
defaultFont ==
    [ch \in {"H", "I"} |->
        [r \in 1..GenHeight |->
            [c \in 1..GenWidth |->
                IF ch = "H" THEN c \in {2, 7} \/ (r = 4 /\ c \in 2..7)
                ELSE c \in {4, 5} \/ (r \in {1, GenHeight} /\ c \in 3..6)]]]

BitmapChars == {"H", "I", "?"}
BitmapTexts == SeqsUpTo(BitmapChars, MaxBitmapLen)

\* let generator = null
NoGenerator == [built |-> FALSE, instance |-> 0, height |-> 0, spacing |-> 0, characters |-> << >>]

\* getGenerator without the `if (!generator)` test: every call builds an engine
getGenerator_always(gen) ==
    [built |-> TRUE, instance |-> gen.instance + 1, height |-> GenHeight, spacing |-> GenSpacing,
     characters |-> [ch \in DOMAIN defaultFont |-> defaultFont[ch]]]

\* getGenerator(): the singleton after the call; on first use the engine is
\* created and every entry of defaultFont is registered with defineCharacter.
\* instance counts the engines built so far
getGenerator(gen) ==
    IF ~gen.built
    THEN [built |-> TRUE, instance |-> gen.instance + 1, height |-> GenHeight,
          spacing |-> GenSpacing,
          characters |-> [ch \in DOMAIN defaultFont |-> defaultFont[ch]]]
    ELSE gen

\* row r of the characters of `chars` side by side, gen.spacing off cells between
RECURSIVE MatrixRow(_, _, _)
MatrixRow(gen, chars, r) ==
    IF chars = << >> THEN << >>
    ELSE IF Len(chars) = 1 THEN gen.characters[chars[1]][r]
    ELSE gen.characters[chars[1]][r] \o [k \in 1..gen.spacing |-> FALSE]
         \o MatrixRow(gen, Tail(chars), r)

\* gen.generateText(text): the combined matrix; a character with no pattern
\* makes the call throw or is left out, as the package decides (policy); the
\* matrix is empty when no character of the text has a pattern
generateText(gen, text, policy) ==
    LET known == SelectSeq(text, LAMBDA ch : ch \in DOMAIN gen.characters)
    IN  IF known # text /\ policy = "throw" THEN [threw |-> TRUE, value |-> << >>]
        ELSE IF known = << >> THEN [threw |-> FALSE, value |-> << >>]
        ELSE [threw |-> FALSE, value |-> [r \in 1..gen.height |-> MatrixRow(gen, known, r)]]

\* gen.toAscii(bitmap, { on, off }): one text row per matrix row
toAscii(bitmap, on, off) ==
    Join([r \in DOMAIN bitmap |-> [c \in DOMAIN bitmap[r] |-> IF bitmap[r][c] THEN on ELSE off]])

\* BITMAP_STYLES.find(s => s.name === styleName): its index, 0 when not found
FindStyle(styleName) ==
    IF \E k \in DOMAIN BITMAP_STYLES : BITMAP_STYLES[k].name = styleName
    THEN CHOOSE k \in DOMAIN BITMAP_STYLES :
            /\ BITMAP_STYLES[k].name = styleName
            /\ \A j \in 1..(k - 1) : BITMAP_STYLES[j].name # styleName
    ELSE 0

\* renderBitmap with the style's characters handed to the constructor instead
\* of to toAscii: the singleton keeps the characters of the first style used
renderBitmap_styleAtConstruction(gen, text, styleName, policy) ==
    IF FindStyle(styleName) = 0 THEN [result |-> NULL, generator |-> gen]
    ELSE LET style == BITMAP_STYLES[FindStyle(styleName)]
             g == IF ~gen.built
                  THEN [built |-> TRUE, instance |-> gen.instance + 1, height |-> GenHeight,
                        spacing |-> GenSpacing, characters |-> defaultFont,
                        onChar |-> style.onChar, offChar |-> style.offChar]
                  ELSE gen
             bitmap == generateText(g, text, policy)
         IN  IF bitmap.threw \/ bitmap.value = << >> THEN [result |-> NULL, generator |-> g]
             ELSE [result |-> toAscii(bitmap.value, g.onChar, g.offChar), generator |-> g]

\* renderBitmap with `off` not handed to toAscii: the package's default off
\* character, a space, is used for every style
renderBitmap_offDefault(gen, text, styleName, policy) ==
    IF FindStyle(styleName) = 0 THEN [result |-> NULL, generator |-> gen]
    ELSE LET g == getGenerator(gen)
             bitmap == generateText(g, text, policy)
         IN  IF bitmap.threw \/ bitmap.value = << >> THEN [result |-> NULL, generator |-> g]
             ELSE [result |-> toAscii(bitmap.value, BITMAP_STYLES[FindStyle(styleName)].onChar, " "),
                   generator |-> g]

\* renderBitmap without its try/catch: an exception of generateText propagates
renderBitmap_noCatch(gen, text, styleName, policy) ==
    IF FindStyle(styleName) = 0 THEN [result |-> NULL, generator |-> gen]
    ELSE LET g == getGenerator(gen)
             bitmap == generateText(g, text, policy)
         IN  IF bitmap.threw THEN [result |-> THROW, generator |-> g]
             ELSE IF bitmap.value = << >> THEN [result |-> NULL, generator |-> g]
             ELSE [result |-> toAscii(bitmap.value, BITMAP_STYLES[FindStyle(styleName)].onChar,
                                      BITMAP_STYLES[FindStyle(styleName)].offChar),
                   generator |-> g]

\* renderBitmap(text, styleName) called when the singleton is gen: what it
\* returns and the singleton it leaves
renderBitmap(gen, text, styleName, policy) ==
    IF FindStyle(styleName) = 0 THEN [result |-> NULL, generator |-> gen]
    ELSE LET style == BITMAP_STYLES[FindStyle(styleName)]
             g == getGenerator(gen)
             bitmap == generateText(g, text, policy)
         IN  IF bitmap.threw THEN [result |-> NULL, generator |-> g]
             ELSE IF bitmap.value = << >> THEN [result |-> NULL, generator |-> g]
             ELSE LET ascii == toAscii(bitmap.value, style.onChar, style.offChar)
                  IN  [result |-> IF ascii = << >> THEN NULL ELSE ascii, generator |-> g]

(***************************************************************************)
(* FontCard (src/unnamed/part_001): one card of the grid.  The card waits  *)
(* for its first intersection with the viewport, then renders its text     *)
(* with the render function it was given, again after every change of the  *)
(* text.                                                                   *)
(***************************************************************************)
\* most changes of the text prop of a card while it is visible
MaxTextChanges == 2

\* useState('Hello'), and the text a card gets for an empty debounced text
Hello == <<"H", "e", "l", "l", "o">>

\* the values of the text prop
CardTexts == {Hello, <<"H", "i">>, <<"a">>}

\* what renderFn(text, renderKey) can do: return art, return the empty
\* string, return null, throw
RenderOutcomes == {<<"#", "\n", "#">>, << >>, NULL, THROW}

\* JavaScript truthiness of a string | null
Truthy(v) == v # NULL /\ v # UNDEFINED /\ v # << >>

\* the render effect with the `if (!isVisible) return` line left out
renderEffect_noGuard(visible, outcome) ==
    IF outcome = THROW
    THEN [invoked |-> TRUE, rendered |-> NULL, error |-> TRUE]
    ELSE [invoked |-> TRUE, rendered |-> outcome, error |-> FALSE]

\* the render effect: whether renderFn is invoked, and the state it sets
renderEffect(visible, outcome) ==
    IF ~visible THEN [invoked |-> FALSE, rendered |-> NULL, error |-> FALSE]
    ELSE IF outcome = THROW
    THEN [invoked |-> TRUE, rendered |-> NULL, error |-> TRUE]
    ELSE [invoked |-> TRUE, rendered |-> outcome, error |-> FALSE]

\* the preview area of the card
Preview(visible, err, art) ==
    IF ~visible THEN "Loading..."
    ELSE IF err THEN "Could not render with this font"
    ELSE IF Truthy(art) THEN "pre"
    ELSE "Rendering..."

\* the card after its first render pass, before its effects have run
CardConstructed ==
    /\ isVisible = FALSE
    /\ rendered = NULL
    /\ error = FALSE
    /\ observing = FALSE
    /\ cardText = Hello
    /\ cardPc = "constructed"
    /\ renderCalls = 0
    /\ textChanges = 0
    /\ lastResult = UNDEFINED
    /\ intersected = FALSE

\* lines 48-57: the render effect, with what renderFn does this time
RunRenderEffect(outcome) ==
    LET e == renderEffect(isVisible, outcome)
    IN  IF e.invoked
        THEN /\ rendered' = e.rendered
             /\ error' = e.error
             /\ renderCalls' = renderCalls + 1
             /\ lastResult' = outcome
        ELSE UNCHANGED <<rendered, error, renderCalls, lastResult>>

\* the effects of the mount: observer.observe(el), then the render effect
CardMount(outcome) ==
    /\ cardPc = "constructed"
    /\ observing' = TRUE
    /\ RunRenderEffect(outcome)
    /\ cardPc' = "mounted"
    /\ UNCHANGED <<isVisible, cardText, textChanges, intersected>>
    /\ UNCHANGED <<rendererVars, viewVars, debounceVars, loaderVars>>

\* the observer's callback for an entry of the observed element; the commit
\* of setIsVisible(true) leaves the render effect to run
Intersect(isIntersecting) ==
    /\ cardPc = "mounted"
    /\ observing
    /\ IF isIntersecting
       THEN /\ isVisible' = TRUE
            /\ observing' = FALSE
            /\ intersected' = TRUE
            /\ cardPc' = "effect"
       ELSE UNCHANGED <<isVisible, observing, intersected, cardPc>>
    /\ UNCHANGED <<rendered, error, cardText, renderCalls, textChanges, lastResult>>
    /\ UNCHANGED <<rendererVars, viewVars, debounceVars, loaderVars>>

\* the parent renders the card with another text; the commit leaves the
\* render effect to run
SetCardText(t) ==
    /\ cardPc = "mounted"
    /\ t # cardText
    /\ isVisible => textChanges < MaxTextChanges
    /\ cardText' = t
    /\ textChanges' = IF isVisible THEN textChanges + 1 ELSE textChanges
    /\ cardPc' = "effect"
    /\ UNCHANGED <<isVisible, rendered, error, observing, renderCalls, lastResult,
                   intersected>>
    /\ UNCHANGED <<rendererVars, viewVars, debounceVars, loaderVars>>

\* the render effect runs after the commit that changed isVisible or text
RenderEffect(outcome) ==
    /\ cardPc = "effect"
    /\ RunRenderEffect(outcome)
    /\ cardPc' = "mounted"
    /\ UNCHANGED <<isVisible, observing, cardText, textChanges, intersected>>
    /\ UNCHANGED <<rendererVars, viewVars, debounceVars, loaderVars>>

\* the card leaves the grid: observer.disconnect()
CardUnmount ==
    /\ cardPc = "mounted"
    /\ observing' = FALSE
    /\ cardPc' = "unmounted"
    /\ UNCHANGED <<isVisible, rendered, error, cardText, renderCalls, textChanges,
                   lastResult, intersected>>
    /\ UNCHANGED <<rendererVars, viewVars, debounceVars, loaderVars>>

NextCard ==
    \/ \E o \in RenderOutcomes : CardMount(o)
    \/ \E b \in BOOLEAN : Intersect(b)
    \/ \E t \in CardTexts : SetCardText(t)
    \/ \E o \in RenderOutcomes : RenderEffect(o)
    \/ CardUnmount

(***************************************************************************)
(* App (src/unnamed/part_000): the list of cards.  displayedFonts is the   *)
(* memoized list: the loaded FIGlet fonts, the cfonts fonts and the bitmap *)
(* styles of the selected library, filtered by the search box and sorted.  *)
(***************************************************************************)
\* number of FIGlet fonts of the catalogue (FIGLET_FONT_NAMES.length)
NumFonts == 42

Capitals == <<"A", "B", "C", "D", "E", "F", "G", "H", "I", "J", "K", "L", "M",
             "N", "O", "P", "Q", "R", "S", "T", "U", "V", "W", "X", "Y", "Z">>
Smalls == <<"a", "b", "c", "d", "e", "f", "g", "h", "i", "j", "k", "l", "m",
           "n", "o", "p", "q", "r", "s", "t", "u", "v", "w", "x", "y", "z">>

\* the lower-case form of each capital
LowerOf == [c \in {Capitals[i] : i \in DOMAIN Capitals} |->
              Smalls[CHOOSE i \in DOMAIN Capitals : Capitals[i] = c]]

\* String.prototype.toLowerCase, one character
LowerChar(c) == IF c \in DOMAIN LowerOf THEN LowerOf[c] ELSE c

toLowerCase(s) == [k \in DOMAIN s |-> LowerChar(s[k])]

\* the collation order of localeCompare for the characters of the names:
\* space, punctuation, symbols, digits, letters; case decides last
CollationOrder == <<" ", "-", "@">> \o <<"0", "1", "2", "3", "4", "5", "6", "7", "8", "9">> \o Smalls

WeightOf == [c \in {CollationOrder[i] : i \in DOMAIN CollationOrder} |->
               CHOOSE i \in DOMAIN CollationOrder : CollationOrder[i] = c]

Weight(c) == WeightOf[LowerChar(c)]

Least(S) == CHOOSE k \in S : \A j \in S : k <= j

\* a.localeCompare(b): -1, 0 or 1
localeCompare(a, b) ==
    LET n == IF Len(a) < Len(b) THEN Len(a) ELSE Len(b)
        differ == {k \in 1..n : Weight(a[k]) # Weight(b[k])}
        cased == {k \in 1..n : a[k] # b[k]}
    IN  IF differ # {}
        THEN IF Weight(a[Least(differ)]) < Weight(b[Least(differ)]) THEN -1 ELSE 1
        ELSE IF Len(a) < Len(b) THEN -1
        ELSE IF Len(a) > Len(b) THEN 1
        ELSE IF cased = {} THEN 0
        ELSE IF a[Least(cased)] = LowerChar(a[Least(cased)]) THEN -1 ELSE 1

\* s.includes(q)
Includes(s, q) == \E i \in 0..(Len(s) - Len(q)) : SubSeq(s, i + 1, i + Len(q)) = q

\* search.trim() is the empty string
IsBlank(s) == \A k \in DOMAIN s : s[k] \in Whitespace

Digit(d) ==
    CASE d = 0 -> "0" [] d = 1 -> "1" [] d = 2 -> "2" [] d = 3 -> "3" [] d = 4 -> "4"
      [] d = 5 -> "5" [] d = 6 -> "6" [] d = 7 -> "7" [] d = 8 -> "8" [] d = 9 -> "9"

\* the name of the i-th FIGlet font of the catalogue
FigletName(i) == <<"f", Digit(i \div 10), Digit(i % 10)>>

FIGLET_FONT_NAMES == [i \in 1..NumFonts |-> FigletName(i)]

\* the fonts loaded first and listed first
FEATURED_FONTS == <<FigletName(7), FigletName(2)>>

Range(s) == {s[k] : k \in DOMAIN s}

\* FIGLET_FONT_NAMES.filter(f => !FEATURED_FONTS.includes(f))
Remaining == SelectSeq(FIGLET_FONT_NAMES, LAMBDA f : f \notin Range(FEATURED_FONTS))

\* the names of the cfonts catalogue shown in the list
CFONTS_NAMES == <<"shade", "block">>

getCfontsDisplayName(fontName) ==
    CASE fontName = "3d" -> <<"3", "D">>
      [] fontName = "block" -> <<"B", "l", "o", "c", "k">>
      [] fontName = "chrome" -> <<"C", "h", "r", "o", "m", "e">>
      [] fontName = "console" -> <<"C", "o", "n", "s", "o", "l", "e">>
      [] fontName = "grid" -> <<"G", "r", "i", "d">>
      [] fontName = "huge" -> <<"H", "u", "g", "e">>
      [] fontName = "pallet" -> <<"P", "a", "l", "l", "e", "t">>
      [] fontName = "shade" -> <<"S", "h", "a", "d", "e">>
      [] fontName = "simple" -> <<"S", "i", "m", "p", "l", "e">>
      [] fontName = "simple3d" -> <<"S", "i", "m", "p", "l", "e", " ", "3", "D">>
      [] fontName = "simpleBlock" -> <<"S", "i", "m", "p", "l", "e", " ", "B", "l", "o", "c", "k">>
      [] fontName = "slick" -> <<"S", "l", "i", "c", "k">>
      [] fontName = "tiny" -> <<"T", "i", "n", "y">>

\* displayName of a bitmap style
BitmapDisplayName(styleName) ==
    CASE styleName = "bitmap-block" -> <<"B", "i", "t", "m", "a", "p", " ", "B", "l", "o", "c", "k">>
      [] styleName = "bitmap-hash" -> <<"B", "i", "t", "m", "a", "p", " ", "H", "a", "s", "h">>
      [] styleName = "bitmap-dot" -> <<"B", "i", "t", "m", "a", "p", " ", "D", "o", "t">>
      [] styleName = "bitmap-star" -> <<"B", "i", "t", "m", "a", "p", " ", "S", "t", "a", "r">>
      [] styleName = "bitmap-at" -> <<"B", "i", "t", "m", "a", "p", " ", "@">>
      [] styleName = "bitmap-slash" -> <<"B", "i", "t", "m", "a", "p", " ", "S", "l", "a", "s", "h">>
      [] styleName = "bitmap-zero-one" -> <<"B", "i", "t", "m", "a", "p", " ", "B", "i", "n", "a", "r", "y">>
      [] styleName = "bitmap-braille" -> <<"B", "i", "t", "m", "a", "p", " ", "B", "r", "a", "i", "l", "l", "e">>
      [] styleName = "bitmap-shade" -> <<"B", "i", "t", "m", "a", "p", " ", "S", "h", "a", "d", "e">>
      [] styleName = "bitmap-cross" -> <<"B", "i", "t", "m", "a", "p", " ", "C", "r", "o", "s", "s">>

\* the source tag as the characters the search looks at
SourceTag(source) ==
    CASE source = "figlet" -> <<"f", "i", "g", "l", "e", "t">>
      [] source = "cfonts" -> <<"c", "f", "o", "n", "t", "s">>
      [] source = "bitmap" -> <<"b", "i", "t", "m", "a", "p">>

LibraryFilters == {"all", "figlet", "cfonts", "bitmap"}

\* the search terms typed
SearchTerms == {<< >>, <<" ">>, <<"z", "z">>, <<"S", "h", "a", "d", "e">>, <<"f", "0">>,
                <<"b", "i", "t", "m", "a", "p">>}

\* the published sets of loaded fonts the list is shown with
Snapshots == {{}, {FigletName(7)}, {FigletName(7), FigletName(2)},
              {FigletName(7), FigletName(2), FigletName(3), FigletName(1)}}

\* Array.from(loadedFonts): the loaded names in the order they were added,
\* the featured batch before the others
LoadedArr(loaded) == SelectSeq(FEATURED_FONTS \o Remaining, LAMBDA f : f \in loaded)

FontEntry(n, src, feat, dn) ==
    [name |-> n, renderKey |-> n, source |-> src, featured |-> feat, displayName |-> dn]

\* the entries pushed for the selected library, before the search filter;
\* the name of a FIGlet entry is its characters, the others have a key
AllEntries(loaded, filter) ==
    (IF filter \in {"all", "figlet"}
     THEN [k \in DOMAIN LoadedArr(loaded) |->
             FontEntry(LoadedArr(loaded)[k], "figlet",
                       LoadedArr(loaded)[k] \in Range(FEATURED_FONTS), LoadedArr(loaded)[k])]
     ELSE << >>)
    \o (IF filter \in {"all", "cfonts"}
        THEN [k \in DOMAIN CFONTS_NAMES |->
                FontEntry(<<CFONTS_NAMES[k]>>, "cfonts", FALSE, getCfontsDisplayName(CFONTS_NAMES[k]))]
        ELSE << >>)
    \o (IF filter \in {"all", "bitmap"}
        THEN [k \in DOMAIN BITMAP_STYLES |->
                FontEntry(<<BITMAP_STYLES[k].name>>, "bitmap", FALSE,
                          BitmapDisplayName(BITMAP_STYLES[k].name))]
        ELSE << >>)

\* the entries after the search filter
Entries(loaded, q, filter) ==
    IF IsBlank(q) THEN AllEntries(loaded, filter)
    ELSE SelectSeq(AllEntries(loaded, filter),
                   LAMBDA e : \/ Includes(toLowerCase(e.displayName), toLowerCase(q))
                              \/ Includes(SourceTag(e.source), toLowerCase(q)))

\* the comparator handed to entries.sort
compare(a, b, filter) ==
    IF a.featured /\ ~b.featured THEN -1
    ELSE IF ~a.featured /\ b.featured THEN 1
    ELSE IF filter = "all" /\ a.source # b.source
    THEN (IF a.source = "figlet" THEN -1 ELSE 1)
    ELSE localeCompare(a.displayName, b.displayName)

\* the comparator orders a before b: it says so both ways round
Before(a, b, filter) == compare(a, b, filter) < 0 /\ compare(b, a, filter) > 0

\* the comparator ties a and b
Tied(a, b, filter) == compare(a, b, filter) = 0 /\ compare(b, a, filter) = 0

\* the pairs of positions the sort has to keep in that order: the pairs the
\* comparator orders, and the pairs it ties (the sort is stable)
Ordered(entries, filter) ==
    {p \in (DOMAIN entries) \X (DOMAIN entries) :
        \/ Before(entries[p[1]], entries[p[2]], filter)
        \/ p[1] < p[2] /\ Tied(entries[p[1]], entries[p[2]], filter)}

\* the orders of the positions of `left` that keep every pair of `ordered`
RECURSIVE Orders(_, _)
Orders(ordered, left) ==
    IF left = {} THEN {<< >>}
    ELSE LET free == {i \in left : \A j \in left : <<j, i>> \notin ordered}
             first == IF free = {} THEN left ELSE free
         IN  UNION {{<<i>> \o rest : rest \in Orders(ordered, left \ {i})} : i \in first}

\* Array.prototype.sort: where the comparator contradicts itself on a pair
\* the order of the pair is left to the engine; every order that respects
\* the pairs the comparator does order is an outcome
SortOutcomes(entries, filter) ==
    LET ordered == Ordered(entries, filter)
    IN  {[k \in DOMAIN entries |-> entries[o[k]]] : o \in Orders(ordered, DOMAIN entries)}

\* the three states of the main area
MainView(loaded, filter, list) ==
    IF Cardinality(loaded) = 0 /\ filter # "cfonts" THEN "Loading state"
    ELSE IF Len(list) = 0 THEN "Empty state"
    ELSE "Font Grid"

\* App after its first render pass
ViewConstructed ==
    /\ search = << >>
    /\ libraryFilter = "all"
    /\ displayedFonts = CHOOSE l \in SortOutcomes(Entries({}, << >>, "all"), "all") : TRUE

\* the search box changes
SetSearch(q) ==
    /\ q # search
    /\ search' = q
    /\ displayedFonts' \in SortOutcomes(Entries(loadedFonts, q, libraryFilter), libraryFilter)
    /\ UNCHANGED <<libraryFilter, loadedFonts>>
    /\ UNCHANGED <<cancelled, loadedFontsRef, loadingProgress, isLoading, loaderPc,
                   batchOffset, inflight, fontModules, progressUpdates, batchesStarted>>
    /\ UNCHANGED <<rendererVars, cardVars, debounceVars>>

\* a library tab is clicked
SetLibraryFilter(f) ==
    /\ f # libraryFilter
    /\ libraryFilter' = f
    /\ displayedFonts' \in SortOutcomes(Entries(loadedFonts, search, f), f)
    /\ UNCHANGED <<search, loadedFonts>>
    /\ UNCHANGED <<cancelled, loadedFontsRef, loadingProgress, isLoading, loaderPc,
                   batchOffset, inflight, fontModules, progressUpdates, batchesStarted>>
    /\ UNCHANGED <<rendererVars, cardVars, debounceVars>>

\* setLoadedFonts(snapshot) of the loader, as the list sees it: a larger set
\* is published and the list is computed again
PublishSnapshot(snapshot) ==
    /\ loadedFonts \subseteq snapshot
    /\ loadedFonts # snapshot
    /\ loadedFonts' = snapshot
    /\ loadedFontsRef' = snapshot
    /\ displayedFonts' \in SortOutcomes(Entries(snapshot, search, libraryFilter), libraryFilter)
    /\ UNCHANGED <<search, libraryFilter>>
    /\ UNCHANGED <<cancelled, loadingProgress, isLoading, loaderPc,
                   batchOffset, inflight, fontModules, progressUpdates, batchesStarted>>
    /\ UNCHANGED <<rendererVars, cardVars, debounceVars>>

NextView ==
    \/ \E q \in SearchTerms : SetSearch(q)
    \/ \E f \in LibraryFilters : SetLibraryFilter(f)
    \/ \E snapshot \in Snapshots : PublishSnapshot(snapshot)

(***************************************************************************)
(* App (src/unnamed/part_000): the debounce of the text input.  timers is  *)
(* the set of timers of the page that are scheduled and have neither fired *)
(* nor been cleared; setTimeout hands out ids 1, 2, 3, ...; fired counts   *)
(* the timers that fired.                                                  *)
(***************************************************************************)
\* most timers scheduled by the debounce effect in one run of the model
MaxTimers == 4

\* what the user can have in the text box
InputTexts == {Hello, << >>, <<"a">>, <<"a", "b">>, <<"a", "b", "c">>}

\* if (debounceTimerRef.current) clearTimeout(debounceTimerRef.current)
clearTimeout(pending, ref) == {tm \in pending : ref = 0 \/ tm.id # ref}

\* the debounce effect with no clearTimeout, in the cleanup or in the body
schedule_noClear(pending, ref, id, value) == pending \cup {[id |-> id, text |-> value]}

\* a run of the debounce effect after the cleanup of its last run: both clear
\* the timer of the ref; then setTimeout(() => setDebouncedText(text), 300).
\* The timers pending after
schedule(pending, ref, id, value) ==
    clearTimeout(clearTimeout(pending, ref), ref) \cup {[id |-> id, text |-> value]}

\* App after its first render pass; no effect has run
DebounceConstructed ==
    /\ inputText = Hello
    /\ debouncedText = Hello
    /\ debounceTimerRef = 0
    /\ timers = {}
    /\ timerSeq = 0
    /\ debouncePc = "constructed"
    /\ fired = 0

\* the debounce effect of the mount
DebounceMount ==
    /\ debouncePc = "constructed"
    /\ timerSeq < MaxTimers
    /\ timers' = schedule(timers, debounceTimerRef, timerSeq + 1, inputText)
    /\ debounceTimerRef' = timerSeq + 1
    /\ timerSeq' = timerSeq + 1
    /\ debouncePc' = "mounted"
    /\ UNCHANGED <<inputText, debouncedText, fired>>
    /\ UNCHANGED <<rendererVars, cardVars, viewVars, loaderVars>>

\* the user changes the text: the cleanup of the last run of the effect
\* clears the timer of the ref, then the effect runs with the new text
SetText(value) ==
    /\ debouncePc = "mounted"
    /\ value # inputText
    /\ timerSeq < MaxTimers
    /\ inputText' = value
    /\ timers' = schedule(timers, debounceTimerRef, timerSeq + 1, value)
    /\ debounceTimerRef' = timerSeq + 1
    /\ timerSeq' = timerSeq + 1
    /\ UNCHANGED <<debouncedText, debouncePc, fired>>
    /\ UNCHANGED <<rendererVars, cardVars, viewVars, loaderVars>>

\* a pending timer fires: setDebouncedText(text) with the text of the render
\* that scheduled it; the ref keeps the id
TimerFires ==
    /\ \E tm \in timers :
          /\ debouncedText' = tm.text
          /\ timers' = timers \ {tm}
    /\ fired' = fired + 1
    /\ UNCHANGED <<inputText, debounceTimerRef, timerSeq, debouncePc>>
    /\ UNCHANGED <<rendererVars, cardVars, viewVars, loaderVars>>

\* App is unmounted: the cleanup clears the timer of the ref
DebounceUnmount ==
    /\ debouncePc = "mounted"
    /\ timers' = clearTimeout(timers, debounceTimerRef)
    /\ debouncePc' = "unmounted"
    /\ UNCHANGED <<inputText, debouncedText, debounceTimerRef, timerSeq, fired>>
    /\ UNCHANGED <<rendererVars, cardVars, viewVars, loaderVars>>

NextDebounce ==
    \/ DebounceMount
    \/ \E value \in InputTexts : SetText(value)
    \/ TimerFires
    \/ DebounceUnmount

(***************************************************************************)
(* App (src/unnamed/part_000): the font loader.  loadAllFonts loads the    *)
(* featured fonts, then the others in batches; after each batch it         *)
(* publishes the set of loaded fonts and the progress.  inflight is the    *)
(* loads of the current batch that wait for their module, in the order     *)
(* they were started.                                                      *)
(***************************************************************************)
BATCH_SIZE == 20

\* what import.meta.glob and the package hold for a font: a module that
\* parses, no module, a loader that rejects, a module parseFont rejects
ModuleKinds == {"ok", "missing", "rejects", "malformed"}

\* the fonts whose module is not known to be good: one of the featured
\* batch, one of the first batch of the others, one of the second
Suspects == {FigletName(7), FigletName(3), FigletName(30)}

Modules == {[f \in Range(FIGLET_FONT_NAMES) |-> IF f \in Suspects THEN e[f] ELSE "ok"] :
              e \in [Suspects -> ModuleKinds]}

\* remaining.slice(i, i + BATCH_SIZE) one font short
Batch_short(i) ==
    SubSeq(Remaining, i + 1, IF i + BATCH_SIZE - 1 < Len(Remaining) THEN i + BATCH_SIZE - 1
                             ELSE Len(Remaining))

\* remaining.slice(i, i + BATCH_SIZE)
Batch(i) ==
    SubSeq(Remaining, i + 1, IF i + BATCH_SIZE < Len(Remaining) THEN i + BATCH_SIZE
                             ELSE Len(Remaining))

\* the loads of a batch that reach `await loader()`: a font with no module
\* is warned about and its promise is settled at once
Awaited(batch, modules) == SelectSeq(batch, LAMBDA f : modules[f] # "missing")

\* the part of a load after `await loader()` with the add moved before
\* parseFont
loadFont_addBeforeParse(ref, fontName, kind) ==
    IF kind \in {"ok", "malformed"} THEN [ref |-> ref \cup {fontName}, rejected |-> FALSE]
    ELSE [ref |-> ref, rejected |-> FALSE]

\* the part of a load after `await loader()` with a catch that warns and
\* throws again when parseFont fails
loadFont_rethrow(ref, fontName, kind) ==
    IF kind = "ok" THEN [ref |-> ref \cup {fontName}, rejected |-> FALSE]
    ELSE [ref |-> ref, rejected |-> kind = "malformed"]

\* the part of a load after `await loader()` with no try/catch around it
loadFont_noCatch(ref, fontName, kind) ==
    IF kind = "ok" THEN [ref |-> ref \cup {fontName}, rejected |-> FALSE]
    ELSE [ref |-> ref, rejected |-> TRUE]

\* the part of a load after `await loader()`: parseFont and the add, with the
\* catch; what loadedFontsRef.current holds after, and whether the promise
\* of the load is rejected
loadFont(ref, fontName, kind) ==
    IF kind = "ok" THEN [ref |-> ref \cup {fontName}, rejected |-> FALSE]
    ELSE [ref |-> ref, rejected |-> FALSE]

\* await Promise.all(promises) with the await left out
AwaitAll_none(loads) == TRUE

\* await Promise.all(promises): loadAllFonts goes on when every load of the
\* batch has settled
AwaitAll(loads) == loads = << >>

\* `if (cancelled) return` left out
Stopped_never(flag) == FALSE

\* if (cancelled) return
Stopped(flag) == flag

\* App after its first render pass; no effect has run
LoaderConstructed ==
    /\ cancelled = FALSE
    /\ loadedFontsRef = {}
    /\ loadedFonts = {}
    /\ loadingProgress = 0
    /\ isLoading = TRUE
    /\ loaderPc = "constructed"
    /\ batchOffset = 0
    /\ inflight = << >>
    /\ fontModules = [f \in Range(FIGLET_FONT_NAMES) |-> "ok"]
    /\ progressUpdates = 0
    /\ batchesStarted = 0

AppConstructed == ViewConstructed /\ DebounceConstructed /\ LoaderConstructed

\* the loader effect of the mount: loadAllFonts() runs up to its first await,
\* the loads of the featured batch are started
LoadAllFonts ==
    /\ loaderPc = "constructed"
    /\ loaderPc' = "featured"
    /\ inflight' = Awaited(FEATURED_FONTS, fontModules)
    /\ batchesStarted' = 1
    /\ UNCHANGED <<cancelled, loadedFontsRef, loadedFonts, loadingProgress, isLoading,
                   batchOffset, fontModules, progressUpdates>>
    /\ UNCHANGED <<rendererVars, cardVars, viewVars, debounceVars>>

\* the module of a load in flight arrives or its loader rejects; loads
\* settle in any order (the first or the second of those in flight)
Settle(k) ==
    /\ k \in DOMAIN inflight
    /\ LET l == loadFont(loadedFontsRef, inflight[k], fontModules[inflight[k]])
       IN  /\ loadedFontsRef' = l.ref
           /\ loaderPc' = IF l.rejected /\ loaderPc \in {"featured", "batch"} THEN "failed"
                          ELSE loaderPc
    /\ inflight' = SubSeq(inflight, 1, k - 1) \o SubSeq(inflight, k + 1, Len(inflight))
    /\ UNCHANGED <<cancelled, loadedFonts, loadingProgress, isLoading, batchOffset,
                   fontModules, progressUpdates, batchesStarted>>
    /\ UNCHANGED <<rendererVars, cardVars, viewVars, debounceVars>>

\* loadAllFonts goes on after a batch: it returns when cancelled; otherwise
\* it publishes the set and the progress and starts the next batch, or
\* clears the loading flag after the last
Continue ==
    /\ loaderPc \in {"featured", "batch"}
    /\ AwaitAll(inflight)
    /\ IF Stopped(cancelled)
       THEN /\ loaderPc' = "returned"
            /\ UNCHANGED <<loadedFonts, loadingProgress, isLoading, batchOffset, inflight,
                           progressUpdates, batchesStarted>>
       ELSE LET i == IF loaderPc = "featured" THEN 0 ELSE batchOffset + BATCH_SIZE
            IN  /\ loadedFonts' = loadedFontsRef
                /\ loadingProgress' = IF loaderPc = "featured" THEN Len(FEATURED_FONTS)
                                      ELSE Len(FEATURED_FONTS) + batchOffset + Len(Batch(batchOffset))
                /\ progressUpdates' = progressUpdates + 1
                /\ IF i < Len(Remaining)
                   THEN /\ loaderPc' = "batch"
                        /\ batchOffset' = i
                        /\ inflight' = inflight \o Awaited(Batch(i), fontModules)
                        /\ batchesStarted' = batchesStarted + 1
                        /\ UNCHANGED isLoading
                   ELSE /\ loaderPc' = "done"
                        /\ isLoading' = FALSE
                        /\ UNCHANGED <<batchOffset, inflight, batchesStarted>>
    /\ UNCHANGED <<cancelled, loadedFontsRef, fontModules>>
    /\ UNCHANGED <<rendererVars, cardVars, viewVars, debounceVars>>

\* App is unmounted: the cleanup of the loader effect
Cancel ==
    /\ loaderPc # "constructed"
    /\ ~cancelled
    /\ cancelled' = TRUE
    /\ UNCHANGED <<loadedFontsRef, loadedFonts, loadingProgress, isLoading, loaderPc,
                   batchOffset, inflight, fontModules, progressUpdates, batchesStarted>>
    /\ UNCHANGED <<rendererVars, cardVars, viewVars, debounceVars>>

NextLoader ==
    \/ LoadAllFonts
    \/ \E k \in {1, 2} : Settle(k)
    \/ Continue
    \/ Cancel

(***************************************************************************)
(* The state machine: a caller invokes a renderer and takes its result.   *)
(***************************************************************************)
NoCall == [fn |-> "none", text |-> << >>, key |-> ""]

InitCfonts ==
    /\ CFONTS_DATA \in {[n \in CfontNames |-> f] : f \in WellSizedFonts}
    /\ pc = "idle"
    /\ call = NoCall
    /\ result = NULL
    /\ outputLines = << >>
    /\ appended = << >>
    /\ lookups = {}
    /\ generator = NoGenerator
    /\ unmappedPolicy = "throw"
    /\ reused = FALSE
    /\ firstFailed = FALSE
    /\ CardConstructed /\ AppConstructed

InvokeCfonts(text, fontName) ==
    /\ pc = "idle"
    /\ pc' = "returned"
    /\ call' = [fn |-> "renderCfonts", text |-> text, key |-> fontName]
    /\ result' = renderCfonts(CFONTS_DATA, text, fontName)
    /\ LET input == CfontsInput(text)
       IN  IF fontName \in DOMAIN CFONTS_DATA
           THEN LET font == CFONTS_DATA[fontName]
                IN  /\ outputLines' = BuildLines(font, input)
                    /\ appended' = [c \in 1..Len(input) |->
                                      [i \in 1..font.lines |-> CharFragment(font, input, c - 1, i - 1)]]
                    /\ lookups' = {input[c] : c \in 1..Len(input)}
           ELSE /\ outputLines' = << >>
                /\ appended' = << >>
                /\ lookups' = {}
    /\ UNCHANGED <<CFONTS_DATA, generator, unmappedPolicy, reused, firstFailed>>
    /\ UNCHANGED <<cardVars, viewVars, debounceVars, loaderVars>>

\* the caller consumes the result; the renderer keeps nothing of the call
Return ==
    /\ pc = "returned"
    /\ pc' = "idle"
    /\ call' = NoCall
    /\ result' = NULL
    /\ outputLines' = << >>
    /\ appended' = << >>
    /\ lookups' = {}
    /\ reused' = FALSE
    /\ UNCHANGED <<CFONTS_DATA, generator, unmappedPolicy, firstFailed>>
    /\ UNCHANGED <<cardVars, viewVars, debounceVars, loaderVars>>

NextCfonts ==
    \/ \E text \in Texts, fontName \in FontArgs : InvokeCfonts(text, fontName)
    \/ Return

SpecCfonts == InitCfonts /\ [][NextCfonts]_vars

\* the fonts of the table when both renderers are exercised: one row, a
\* one-space template, every glyph row of the model
SampleFonts == {f \in Fonts : WellFormedFont(f) /\ f.lines = 1 /\ f.hasLetterspace
                              /\ f.letterspace = << <<" ">> >>}

Init ==
    /\ CFONTS_DATA \in {[n \in CfontNames |-> f] : f \in SampleFonts}
    /\ pc = "idle"
    /\ call = NoCall
    /\ result = NULL
    /\ outputLines = << >>
    /\ appended = << >>
    /\ lookups = {}
    /\ generator = NoGenerator
    /\ unmappedPolicy \in {"throw", "skip"}
    /\ reused = FALSE
    /\ firstFailed = FALSE
    /\ CardConstructed /\ AppConstructed

InvokeBitmap(text, styleName) ==
    /\ pc = "idle"
    /\ pc' = "returned"
    /\ call' = [fn |-> "renderBitmap", text |-> text, key |-> styleName]
    /\ result' = renderBitmap(generator, text, styleName, unmappedPolicy).result
    /\ generator' = renderBitmap(generator, text, styleName, unmappedPolicy).generator
    /\ reused' = generator.built
    /\ firstFailed' = IF generator.built \/ FindStyle(styleName) = 0 THEN firstFailed
                      ELSE renderBitmap(generator, text, styleName, unmappedPolicy).result = NULL
    /\ outputLines' = << >>
    /\ appended' = << >>
    /\ lookups' = {}
    /\ UNCHANGED <<CFONTS_DATA, unmappedPolicy>>
    /\ UNCHANGED <<cardVars, viewVars, debounceVars, loaderVars>>

Next ==
    \/ \E text \in Texts, fontName \in FontArgs : InvokeCfonts(text, fontName)
    \/ \E text \in BitmapTexts, styleName \in StyleArgs : InvokeBitmap(text, styleName)
    \/ Return

Spec == Init /\ [][Next]_vars

(***************************************************************************)
(* The card, the list, the debounce and the loader, each on its own.       *)
(***************************************************************************)
\* the renderers as the module load leaves them, with one table
RenderersLoaded ==
    /\ CFONTS_DATA = [n \in CfontNames |-> CHOOSE f \in SampleFonts : TRUE]
    /\ pc = "idle"
    /\ call = NoCall
    /\ result = NULL
    /\ outputLines = << >>
    /\ appended = << >>
    /\ lookups = {}
    /\ generator = NoGenerator
    /\ unmappedPolicy = "throw"
    /\ reused = FALSE
    /\ firstFailed = FALSE

InitCard == RenderersLoaded /\ CardConstructed /\ AppConstructed

SpecCard == InitCard /\ [][NextCard]_vars

InitView ==
    /\ RenderersLoaded /\ CardConstructed /\ DebounceConstructed /\ LoaderConstructed
    /\ search = << >>
    /\ libraryFilter = "all"
    /\ displayedFonts \in SortOutcomes(Entries({}, << >>, "all"), "all")

SpecView == InitView /\ [][NextView]_vars

InitDebounce == RenderersLoaded /\ CardConstructed /\ AppConstructed

SpecDebounce == InitDebounce /\ [][NextDebounce]_vars

\* a timer that is pending fires after its delay
FairSpecDebounce == SpecDebounce /\ WF_vars(TimerFires)

InitLoader ==
    /\ RenderersLoaded /\ CardConstructed /\ ViewConstructed /\ DebounceConstructed
    /\ cancelled = FALSE
    /\ loadedFontsRef = {}
    /\ loadedFonts = {}
    /\ loadingProgress = 0
    /\ isLoading = TRUE
    /\ loaderPc = "constructed"
    /\ batchOffset = 0
    /\ inflight = << >>
    /\ fontModules \in Modules
    /\ progressUpdates = 0
    /\ batchesStarted = 0

SpecLoader == InitLoader /\ [][NextLoader]_vars

(***************************************************************************)
(* Properties of renderCfonts.                                             *)
(***************************************************************************)
\* a call of renderCfonts on a font of the table has returned
CfontsReturned == pc = "returned" /\ call.fn = "renderCfonts" /\ call.key \in DOMAIN CFONTS_DATA

CallFont == CFONTS_DATA[call.key]
CallInput == toUpperCase(call.text)

\* row `line` (zero-based) of an array of rows, '' when the array has no such row
RowOrEmpty(rows, line) == IF (line + 1) \in DOMAIN rows THEN rows[line + 1] ELSE << >>

\* the markup-stripped row of the spacing template, '' when the row is missing
SpacingRow(font, line) == StripFrom(RowOrEmpty(font.letterspace, line), 1)

\* the markup-stripped row of the glyph of ch, '' when the row is missing
GlyphRow(font, ch, line) == StripFrom(RowOrEmpty(font.chars[ch], line), 1)

\* what stands in for an unmapped character on row `line`
Substitute(font, line) ==
    IF font.hasLetterspace /\ RowOrEmpty(font.letterspace, line) # << >>
    THEN SpacingRow(font, line)
    ELSE <<" ", " ">>

\* C1: renderCfonts("", f) returns null for every font f of the table, whatever
\* its row count (stated for the well-formed fonts, where a violation cannot be
\* blamed on the glyph data).
C1_EmptyTextIsNull ==
    (CfontsReturned /\ WellFormedFont(CallFont) /\ call.text = << >>) => result = NULL

\* C2 as claimed: with a spacing template, the template row is appended once
\* more after every character that is not the last one, glyph or unmapped, and
\* nothing is appended after the last one (stated for the well-formed fonts).
C2_SpacingAfterEveryNonLast ==
    (CfontsReturned /\ WellFormedFont(CallFont) /\ CallFont.hasLetterspace) =>
        \A c \in 1..Len(CallInput), i \in 1..CallFont.lines :
            LET own == IF CallInput[c] \in DOMAIN CallFont.chars
                       THEN GlyphRow(CallFont, CallInput[c], i - 1)
                       ELSE Substitute(CallFont, i - 1)
            IN  appended[c][i] = IF c < Len(CallInput)
                                 THEN own \o SpacingRow(CallFont, i - 1)
                                 ELSE own

\* C2 as amended: with a spacing template, the template row is appended once
\* more after every character that has a glyph and is not the last one; an
\* unmapped character contributes its substitute fragment only, and nothing is
\* appended after the last character.
C2_SpacingAfterNonLastGlyph ==
    (CfontsReturned /\ CallFont.hasLetterspace) =>
        \A c \in 1..Len(CallInput), i \in 1..CallFont.lines :
            IF CallInput[c] \in DOMAIN CallFont.chars
            THEN appended[c][i] = IF c < Len(CallInput)
                                  THEN GlyphRow(CallFont, CallInput[c], i - 1) \o SpacingRow(CallFont, i - 1)
                                  ELSE GlyphRow(CallFont, CallInput[c], i - 1)
            ELSE appended[c][i] = Substitute(CallFont, i - 1)

\* a call whose input has a non-last glyph character and a non-last unmapped
\* character, on a font whose template has a visible first row
C2_Witness ==
    /\ CfontsReturned /\ CallFont.hasLetterspace
    /\ SpacingRow(CallFont, 0) # << >>
    /\ \E c, d \in 1..(Len(CallInput) - 1) :
          /\ CallInput[c] \in DOMAIN CallFont.chars
          /\ CallInput[d] \notin DOMAIN CallFont.chars
          /\ appended[c][1] = GlyphRow(CallFont, CallInput[c], 0) \o SpacingRow(CallFont, 0)
          /\ appended[d][1] = SpacingRow(CallFont, 0)

\* C3 as claimed: for an unmapped character the fragment appended to row i is
\* the markup-stripped row i of the spacing template whenever the font has a
\* template, and two spaces only when it has none (stated for the well-formed
\* fonts, whose template has a row i).
C3_UnmappedUsesTemplateRow ==
    (CfontsReturned /\ WellFormedFont(CallFont)) =>
        \A c \in 1..Len(CallInput), i \in 1..CallFont.lines :
            CallInput[c] \notin DOMAIN CallFont.chars =>
                appended[c][i] = IF CallFont.hasLetterspace
                                 THEN SpacingRow(CallFont, i - 1)
                                 ELSE <<" ", " ">>

\* C3 as amended: for an unmapped character the fragment appended to row i is
\* the markup-stripped row i of the spacing template when the font has a
\* template whose row i exists and is not the empty string; it is two spaces
\* when the font has no template or the template's row i is missing or empty.
C3_UnmappedUsesTemplateRowOrDefault ==
    CfontsReturned =>
        \A c \in 1..Len(CallInput), i \in 1..CallFont.lines :
            CallInput[c] \notin DOMAIN CallFont.chars =>
                appended[c][i] = IF /\ CallFont.hasLetterspace
                                    /\ i \in DOMAIN CallFont.letterspace
                                    /\ CallFont.letterspace[i] # << >>
                                 THEN StripFrom(CallFont.letterspace[i], 1)
                                 ELSE <<" ", " ">>

\* an unmapped character rendered with a template whose first row is empty and
\* whose second row is tagged
C3_Witness ==
    /\ CfontsReturned /\ CallFont.hasLetterspace /\ CallFont.lines = 2
    /\ Len(CallFont.letterspace) = 2
    /\ CallFont.letterspace[1] = << >>
    /\ CallFont.letterspace[2] = <<"<", "c", "2", ">", "_", "<", "/", "c", "2", ">">>
    /\ \E c \in 1..Len(CallInput) :
          /\ CallInput[c] = " "
          /\ appended[c] = << <<" ", " ">>, <<"_">> >>

\* the position of the n-th line break of s; 0 for n = 0 and Len(s) + 1 past
\* the last one
BreakAt(s, n) ==
    LET breaks == {k \in DOMAIN s : s[k] = "\n"}
    IN  IF n = 0 THEN 0
        ELSE IF n > Cardinality(breaks) THEN Len(s) + 1
        ELSE CHOOSE k \in breaks : Cardinality({j \in breaks : j < k}) = n - 1

\* the rows of a string: its pieces between line breaks
SplitLines(s) ==
    [i \in 1..(Cardinality({k \in DOMAIN s : s[k] = "\n"}) + 1) |->
        SubSeq(s, BreakAt(s, i - 1) + 1, BreakAt(s, i) - 1)]

IsString(v) == v \notin {NULL, UNDEFINED, THROW}

\* C4: every row of a non-null result is the accumulated row with only its
\* trailing whitespace removed: it is a prefix of the accumulated row, does not
\* end in whitespace, and what was cut is whitespace only.
C4_OnlyTrailingWhitespaceRemoved ==
    (CfontsReturned /\ IsString(result)) =>
        LET rows == SplitLines(result)
        IN  /\ Len(rows) = Len(outputLines)
            /\ \A i \in DOMAIN outputLines :
                  /\ Len(rows[i]) <= Len(outputLines[i])
                  /\ rows[i] = SubSeq(outputLines[i], 1, Len(rows[i]))
                  /\ rows[i] # << >> => rows[i][Len(rows[i])] \notin Whitespace
                  /\ \A k \in (Len(rows[i]) + 1)..Len(outputLines[i]) :
                        outputLines[i][k] \in Whitespace

\* a non-null result one of whose accumulated rows starts with whitespace, has
\* a visible character, and ends in two or more whitespace characters
C4_Witness ==
    /\ CfontsReturned /\ IsString(result)
    /\ \E i \in DOMAIN outputLines :
          LET row == outputLines[i]
          IN  /\ Len(row) >= 4
              /\ row[1] \in Whitespace
              /\ row[2] \notin Whitespace
              /\ row[Len(row)] \in Whitespace
              /\ row[Len(row) - 1] \in Whitespace
              /\ SplitLines(result)[i] = SubSeq(row, 1, Len(SplitLines(result)[i]))
              /\ SplitLines(result)[i][1] \in Whitespace

\* C5: every non-null result has exactly `lines` rows separated by line breaks.
C5_ExactlyLinesRows ==
    (CfontsReturned /\ IsString(result)) => Len(SplitLines(result)) = CallFont.lines

\* a non-null result of a two-row font whose last row is empty after trimming
C5_Witness ==
    /\ CfontsReturned /\ IsString(result) /\ CallFont.lines = 2
    /\ call.text # << >>
    /\ outputLines[2] # << >>
    /\ SplitLines(result)[1] # << >>
    /\ SplitLines(result)[2] = << >>

\* the font of the call is malformed in one of the three ways: a glyph entry
\* with fewer rows than `lines`, a template with fewer rows, no template
Malformed(font) ==
    \/ \E ch \in DOMAIN font.chars : Len(font.chars[ch]) < font.lines
    \/ font.hasLetterspace /\ Len(font.letterspace) < font.lines
    \/ ~font.hasLetterspace

\* C6: on a malformed font renderCfonts raises no error: it returns a string or
\* null, a missing glyph row or letter-spacing row counting as the empty
\* fragment and a missing substitute row as the two-space default.
C6_NoThrowOnMalformedFont ==
    (CfontsReturned /\ Malformed(CallFont)) =>
        /\ result # THROW
        /\ result = NULL \/ IsString(result)
        /\ \A c \in 1..Len(CallInput), i \in 1..CallFont.lines :
              LET ch == CallInput[c]
                  spaced == c < Len(CallInput) /\ CallFont.hasLetterspace
              IN  /\ (ch \in DOMAIN CallFont.chars /\ i \notin DOMAIN CallFont.chars[ch]) =>
                        appended[c][i] = IF spaced THEN SpacingRow(CallFont, i - 1) ELSE << >>
                  /\ (ch \in DOMAIN CallFont.chars /\ spaced /\ i \notin DOMAIN CallFont.letterspace) =>
                        appended[c][i] = GlyphRow(CallFont, ch, i - 1)
                  /\ (ch \notin DOMAIN CallFont.chars
                        /\ (~CallFont.hasLetterspace \/ i \notin DOMAIN CallFont.letterspace)) =>
                        appended[c][i] = <<" ", " ">>

\* a call that returned a string on a font whose glyph of 'A' and whose template
\* both lack the second row, for a text with 'A' before an unmapped character
C6_Witness ==
    /\ CfontsReturned /\ IsString(result)
    /\ CallFont.lines = 2 /\ CallFont.hasLetterspace
    /\ Len(CallFont.chars["A"]) = 1 /\ Len(CallFont.letterspace) = 1
    /\ CallInput = <<"A", " ">>
    /\ appended[1][2] = << >>
    /\ appended[2][2] = <<" ", " ">>

\* C7: renderCfonts(t, f) = renderCfonts(upper(t), f), and the glyph table is
\* only ever indexed with upper-cased characters.
C7_CaseInsensitive ==
    CfontsReturned =>
        /\ result = renderCfonts(CFONTS_DATA, toUpperCase(call.text), call.key)
        /\ \A ch \in lookups : toUpperCase(<<ch>>) = <<ch>>

\* a call on a text with a lower-case letter whose glyph shows in the result
C7_Witness ==
    /\ CfontsReturned /\ IsString(result)
    /\ \E c \in DOMAIN call.text : call.text[c] = "a"
    /\ "A" \in lookups
    /\ \E k \in DOMAIN result : result[k] = "X"

(***************************************************************************)
(* Properties of the two renderers together and of renderBitmap.           *)
(***************************************************************************)
BitmapReturned == pc = "returned" /\ call.fn = "renderBitmap"

\* C8: the result of a call depends only on its arguments: whatever calls came
\* before, it is the result the same call gives as the very first call of the
\* process, when the engine is still to be built.
C8_SameResultAsFirstCall ==
    pc = "returned" =>
        result = IF call.fn = "renderBitmap"
                 THEN renderBitmap(NoGenerator, call.text, call.key, unmappedPolicy).result
                 ELSE renderCfonts(CFONTS_DATA, call.text, call.key)

\* a renderBitmap call that found the engine already built and returned art
C8_Witness ==
    /\ BitmapReturned /\ reused /\ IsString(result)
    /\ Len(call.text) = 2

\* s with every occurrence of the character `from` replaced by `to`
ReplaceAll(s, from, to) == [k \in DOMAIN s |-> IF s[k] = from THEN to ELSE s[k]]

RowLengths(s) == LET rows == SplitLines(s) IN [i \in DOMAIN rows |-> Len(rows[i])]

\* C9: for every text and every two styles A and B the outputs are both null,
\* or have the same number of rows and the same row lengths and A's output
\* with A's onChar replaced by B's onChar and then A's offChar by B's offChar
\* is B's output.
C9_StylesShareGeometry ==
    (BitmapReturned /\ FindStyle(call.key) # 0) =>
        \A k \in DOMAIN BITMAP_STYLES :
            LET A == BITMAP_STYLES[FindStyle(call.key)]
                B == BITMAP_STYLES[k]
                other == renderBitmap(generator, call.text, B.name, unmappedPolicy).result
            IN  IF result = NULL THEN other = NULL
                ELSE /\ IsString(result) /\ IsString(other)
                     /\ RowLengths(result) = RowLengths(other)
                     /\ ReplaceAll(ReplaceAll(result, A.onChar, B.onChar), A.offChar, B.offChar)
                           = other

\* a two-character text rendered with style bitmap-hash: GenHeight rows of two
\* patterns and the spacing column, with both on and off cells
C9_Witness ==
    /\ BitmapReturned /\ call.key = "bitmap-hash" /\ call.text = <<"H", "I">>
    /\ IsString(result)
    /\ RowLengths(result) = [i \in 1..GenHeight |-> 2 * GenWidth + GenSpacing]
    /\ \E i, j \in DOMAIN result : result[i] = "#" /\ result[j] = " "
    /\ ReplaceAll(ReplaceAll(result, "#", "1"), " ", "0")
          = renderBitmap(generator, call.text, "bitmap-zero-one", unmappedPolicy).result

CardRendered == isVisible /\ cardPc = "mounted" /\ renderCalls > 0

\* C11: whenever the render function of a visible card returns null, the card
\* shows the "could not render" placeholder.
C11_NullShowsCouldNotRender ==
    (CardRendered /\ lastResult = NULL)
        => Preview(isVisible, error, rendered) = "Could not render with this font"

\* C20: the render function is never invoked before the first intersection;
\* isVisible turns true once, at the first intersection, and never turns
\* false again; the element is no longer observed from then on; and once the
\* card is visible the render function has been invoked once for the first
\* intersection and once more for every change of the text.
C20_RendersOnceVisibleAndOnEveryTextChange ==
    /\ [](renderCalls > 0 => intersected)
    /\ [](isVisible <=> intersected)
    /\ [](isVisible => ~observing)
    /\ [][isVisible => isVisible']_vars
    /\ [](isVisible /\ cardPc = "mounted" => renderCalls = textChanges + 1)
    /\ [][(isVisible /\ cardText' # cardText) => cardPc' = "effect"]_vars

\* a visible card whose text changed MaxTextChanges times, rendered each time
C20_Witness ==
    /\ CardRendered
    /\ textChanges = MaxTextChanges
    /\ renderCalls = MaxTextChanges + 1
    /\ ~observing

(***************************************************************************)
(* Properties of the list of cards.                                        *)
(***************************************************************************)
\* C12: with a single library selected, in every state of the loading, when
\* no entry of that library matches the search the main area shows the
\* empty-list state, not the loading state.
C12_NoMatchShowsEmptyState ==
    (libraryFilter \in {"figlet", "cfonts", "bitmap"}
        /\ Entries(loadedFonts, search, libraryFilter) = << >>)
        => MainView(loadedFonts, libraryFilter, displayedFonts) = "Empty state"

\* the positions of the non-featured entries of the list
Plain(list) == {k \in DOMAIN list : ~list[k].featured}

\* C16: in the displayed list every featured entry precedes every other
\* entry; under the filter 'all' the other entries of one source are
\* contiguous and those of figlet come first; and the entries of one group
\* are in alphabetical order of display name.
C16_FeaturedThenGroupedThenAlphabetical ==
    LET list == displayedFonts
    IN  /\ \A i, j \in DOMAIN list : (list[i].featured /\ ~list[j].featured) => i < j
        /\ libraryFilter = "all" =>
             /\ \A i, j, k \in Plain(list) :
                  (i < j /\ j < k /\ list[i].source = list[k].source)
                      => list[j].source = list[i].source
             /\ \A i, j \in Plain(list) :
                  (list[i].source = "figlet" /\ list[j].source # "figlet") => i < j
        /\ \A i, j \in DOMAIN list :
             (i < j /\ list[i].featured = list[j].featured /\ list[i].source = list[j].source)
                 => localeCompare(list[i].displayName, list[j].displayName) <= 0

(***************************************************************************)
(* Properties of the font loader.                                          *)
(***************************************************************************)
\* ceil(a / b)
Ceil(a, b) == (a + b - 1) \div b

\* the fonts whose load fails
Failing == {f \in Range(FIGLET_FONT_NAMES) : fontModules[f] # "ok"}

\* the fonts of the first n batches (the featured batch is the first)
BatchFonts(n) ==
    IF n = 0 THEN {}
    ELSE Range(FEATURED_FONTS)
         \cup {Remaining[k] : k \in {k \in DOMAIN Remaining : k <= (n - 1) * BATCH_SIZE}}

\* the fonts of the batch being loaded
CurrentBatch ==
    IF loaderPc = "featured" THEN FEATURED_FONTS
    ELSE IF loaderPc = "batch" THEN Batch(batchOffset)
    ELSE << >>

\* C13: an uncancelled load of N fonts publishes the progress exactly
\* ceil((N - featuredCount) / BATCH_SIZE) + 1 times, and the set it has
\* published at the end has N minus the number of failed loads fonts.
C13_UpdatesAndFinalSize ==
    loaderPc = "done" =>
        /\ progressUpdates
             = Ceil(Len(FIGLET_FONT_NAMES) - Len(FEATURED_FONTS), BATCH_SIZE) + 1
        /\ Cardinality(loadedFonts) = Len(FIGLET_FONT_NAMES) - Cardinality(Failing)
        /\ ~isLoading

\* a finished load in which loads failed, with more than one batch after
\* the featured one
C13_Witness ==
    /\ loaderPc = "done"
    /\ ~cancelled
    /\ Cardinality(Failing) > 1
    /\ progressUpdates > 2
    /\ Cardinality(loadedFonts) < Len(FIGLET_FONT_NAMES)

\* C14: once cancelled is true no batch is started and neither the
\* published set, the progress nor the loading flag is written.
C14_NothingPublishedAfterCancel ==
    [][cancelled =>
          /\ loadedFonts' = loadedFonts
          /\ loadingProgress' = loadingProgress
          /\ isLoading' = isLoading
          /\ progressUpdates' = progressUpdates
          /\ batchesStarted' = batchesStarted
          /\ Len(inflight') <= Len(inflight)]_vars

\* the load was cancelled during the first batch after the featured one:
\* loadAllFonts has returned, fonts that settled after the cancel are in the
\* ref but not published, and the loading flag is still set
C14_Witness ==
    /\ cancelled
    /\ loaderPc = "returned"
    /\ batchesStarted > 1
    /\ loadedFonts # loadedFontsRef
    /\ isLoading

\* C15: a load that fails (no module, loader rejects, parseFont throws) keeps
\* exactly that font out of the loaded set: every other font whose load has
\* settled is in the ref, loadAllFonts is not aborted, and after every batch
\* the published set is the fonts of the batches so far without the failed.
C15_FailureExcludesOnlyThatFont ==
    /\ loaderPc # "failed"
    /\ \A f \in BatchFonts(batchesStarted) \ Range(inflight) :
         f \in loadedFontsRef <=> f \notin Failing
    /\ loadedFonts = BatchFonts(progressUpdates) \ Failing
    /\ (loaderPc = "done" => loadedFonts = Range(FIGLET_FONT_NAMES) \ Failing)

\* a finished load with a failure of each kind, one per batch
C15_Witness ==
    /\ loaderPc = "done"
    /\ {fontModules[f] : f \in Failing} = {"missing", "rejects", "malformed"}
    /\ Cardinality(loadedFonts) = Len(FIGLET_FONT_NAMES) - Cardinality(Suspects)

\* C18: loads of different batches never overlap.  The loads in flight are
\* loads of the current batch, so at most as many as the batch has fonts
\* (BATCH_SIZE for the batches after the featured one); and a batch is
\* started only when no load is in flight and the snapshot of every batch
\* before it has been published.
C18_BatchesDoNotOverlap ==
    /\ [](Range(inflight) \subseteq Range(CurrentBatch))
    /\ [](Len(inflight) <= Len(CurrentBatch))
    /\ [](loaderPc = "batch" => Len(inflight) <= BATCH_SIZE)
    /\ [][batchesStarted' # batchesStarted =>
            /\ inflight = << >>
            /\ progressUpdates' = batchesStarted
            /\ loadedFonts' = loadedFontsRef
            /\ loadedFonts' = BatchFonts(batchesStarted) \ Failing]_vars

\* every load of the second batch after the featured one is in flight
C18_Witness ==
    /\ loaderPc = "batch"
    /\ batchOffset > 0
    /\ Len(inflight) = BATCH_SIZE
    /\ progressUpdates = batchesStarted - 1

(***************************************************************************)
(* Properties of the engine of renderBitmap.                               *)
(***************************************************************************)
\* the call that returned has used the engine (its style is known)
UsedEngine == BitmapReturned /\ FindStyle(call.key) # 0

\* C17: over any sequence of renderBitmap calls the engine is built at most
\* once, and whenever a call uses the engine it is that one engine with
\* every pattern of defaultFont registered, also when the first call that
\* used the engine failed.
C17_EngineBuiltOnceAndComplete ==
    /\ generator.instance <= 1
    /\ generator.built <=> generator.instance = 1
    /\ UsedEngine =>
         /\ generator.built
         /\ DOMAIN generator.characters = DOMAIN defaultFont
         /\ \A ch \in DOMAIN defaultFont : generator.characters[ch] = defaultFont[ch]

\* a call that renders with the engine a failed first call has built
C17_Witness ==
    /\ UsedEngine
    /\ reused
    /\ firstFailed
    /\ IsString(result)
    /\ generator.instance = 1

(***************************************************************************)
(* Properties of the debounce.                                             *)
(***************************************************************************)
\* C19: at most one debounce timer is pending; every change of the input
\* text clears the pending timer and schedules a new one; a pending timer
\* carries the input text of now and is the timer of the ref, so the
\* debounced text is only ever set to the current input text and a burst of
\* changes ends in one update with the last value; and once the input has
\* stopped the debounced text eventually equals the input text (while App
\* is mounted).
C19_Debounce ==
    /\ [](Cardinality(timers) <= 1)
    /\ [](\A tm \in timers : tm.text = inputText /\ tm.id = debounceTimerRef)
    /\ [][inputText' # inputText =>
            /\ timers' = {[id |-> timerSeq + 1, text |-> inputText']}
            /\ timers' \cap timers = {}
            /\ debouncedText' = debouncedText]_vars
    /\ [][fired' # fired =>
            /\ debouncedText' = inputText
            /\ inputText' = inputText
            /\ timers' = {}]_vars
    /\ [][debouncedText' # debouncedText => fired' = fired + 1]_vars
    /\ <>[](debouncePc = "mounted" => debouncedText = inputText)

\* the timer of the mount and of a first change were cleared by the next
\* change; the one timer that fired carried the last text
C19_Witness ==
    /\ debouncePc = "mounted"
    /\ timerSeq > 2
    /\ fired = 1
    /\ timers = {}
    /\ debouncedText = inputText
    /\ inputText # Hello

(***************************************************************************)
(* renderFiglet, the render function of the cards of the FIGlet entries,   *)
(* while the loader runs.                                                  *)
(***************************************************************************)
\* what figlet.textSync(inputText, {font}) can do for a parsed font: return
\* the art or throw
TextSyncOutcomes == {<<"#", "\n", "#">>, THROW}

\* if (!loadedFontsRef.current.has(font)) return null
NotLoaded(ref, font) == font \notin ref

\* renderFiglet(inputText, font), with what textSync does this time
renderFiglet(ref, font, outcome) ==
    IF NotLoaded(ref, font) THEN NULL
    ELSE IF outcome = THROW THEN NULL
    ELSE outcome

\* the FIGlet entries of the list: Array.from(loadedFonts)
FigletCatalog == loadedFonts

\* the render effect of a visible card of a FIGlet entry calls
\* renderFiglet(text, renderKey); lastResult is what the call returned
RenderFiglet(font, outcome) ==
    /\ font \in FigletCatalog
    /\ lastResult' = renderFiglet(loadedFontsRef, font, outcome)
    /\ UNCHANGED <<isVisible, rendered, error, observing, cardText, cardPc, renderCalls,
                   textChanges, intersected>>
    /\ UNCHANGED <<rendererVars, viewVars, debounceVars, loaderVars>>

NextFiglet ==
    \/ NextLoader
    \/ \E font \in Range(FIGLET_FONT_NAMES), outcome \in TextSyncOutcomes :
          RenderFiglet(font, outcome)

SpecFiglet == InitLoader /\ [][NextFiglet]_vars

\* C21: the published set only grows; it is always a subset of the
\* loader's internal set; every member of either set is a font whose module
\* was parsed; when the loading flag is cleared the two sets are equal; and
\* for a font with a catalogue entry renderFiglet never takes its "not
\* loaded" return: it returns what textSync returns.
C21_PublishedOnlyGrows ==
    /\ [][loadedFonts \subseteq loadedFonts']_vars
    /\ [](loadedFonts \subseteq loadedFontsRef)
    /\ [](\A f \in loadedFontsRef : fontModules[f] = "ok")
    /\ [](~isLoading => loadedFonts = loadedFontsRef)
    /\ [](\A f \in FigletCatalog :
            /\ ~NotLoaded(loadedFontsRef, f)
            /\ \A o \in TextSyncOutcomes \ {THROW} : renderFiglet(loadedFontsRef, f, o) = o)

\* loading has finished with a font that failed, a second snapshot was
\* published on top of the first, and a card has rendered a loaded font
C21_Witness ==
    /\ ~isLoading
    /\ progressUpdates > 2
    /\ loadedFonts = loadedFontsRef
    /\ loadedFonts # Range(FIGLET_FONT_NAMES)
    /\ FigletName(30) \in loadedFonts
    /\ lastResult \in TextSyncOutcomes \ {THROW}

(***************************************************************************)
(* Properties of the comparator of the list.                               *)
(***************************************************************************)
Sign(n) == IF n < 0 THEN -1 ELSE IF n > 0 THEN 1 ELSE 0

\* compare(a, b) and compare(b, a) have opposite signs or are both zero
Antisymmetric(es, filter) ==
    \A i, j \in DOMAIN es :
        Sign(compare(es[i], es[j], filter)) = 0 - Sign(compare(es[j], es[i], filter))

\* a before-or-equal b and b before-or-equal c give a before-or-equal c
Transitive(es, filter) ==
    \A i, j, k \in DOMAIN es :
        (compare(es[i], es[j], filter) <= 0 /\ compare(es[j], es[k], filter) <= 0)
            => compare(es[i], es[k], filter) <= 0

\* C22: for the entries the list is made of, under every filter, the
\* comparator is a consistent ordering: compare(a, b) and compare(b, a) have
\* opposite signs or are both zero, and the comparison is transitive.
C22_ComparatorConsistent ==
    LET es == Entries(loadedFonts, search, libraryFilter)
    IN  Antisymmetric(es, libraryFilter) /\ Transitive(es, libraryFilter)

(***************************************************************************)
(* Termination of the loader.  The mount effect runs, every load in flight *)
(* settles, and a continuation whose awaited promise is settled is run by  *)
(* the event loop.                                                         *)
(***************************************************************************)
FairSpecLoader ==
    /\ SpecLoader
    /\ WF_vars(LoadAllFonts)
    /\ WF_vars(\E k \in {1, 2} : Settle(k))
    /\ WF_vars(Continue)

\* totalFiglet
totalFiglet == Len(FIGLET_FONT_NAMES)

\* C23: unless App is unmounted the loading flag is eventually cleared;
\* when it is cleared the progress counter equals the number of FIGlet
\* fonts; the progress counter never decreases.
C23_LoaderTerminates ==
    /\ ([](~cancelled)) => <>(~isLoading)
    /\ [](~isLoading => loadingProgress = totalFiglet)
    /\ [][loadingProgress' >= loadingProgress]_vars

\* the loader has come to its end, never cancelled, with a font of every
\* batch that failed to load
C23_Witness ==
    /\ ~isLoading
    /\ ~cancelled
    /\ loaderPc = "done"
    /\ loadingProgress = totalFiglet
    /\ loadedFontsRef \cap Suspects = {}

(***************************************************************************)
(* The text on its way from the input to a card: App renders every card    *)
(* with text={debouncedText || 'Hello'} (src/unnamed/part_000 line 290).   *)
(***************************************************************************)
\* the text prop without the default
textProp_noDefault(debounced) == debounced

\* debouncedText || 'Hello'
textProp(debounced) == IF debounced = << >> THEN Hello ELSE debounced

\* a pending timer fires (the effects of the last commit have run):
\* setDebouncedText(text), App renders again and a card in the grid gets
\* its text prop; when the prop has changed the commit leaves the render
\* effect of the card to run
DebouncedTextReachesCard ==
    /\ cardPc \in {"mounted", "unmounted"}
    /\ \E tm \in timers :
          /\ debouncedText' = tm.text
          /\ timers' = timers \ {tm}
    /\ fired' = fired + 1
    /\ IF cardPc = "mounted"
       THEN /\ cardText' = textProp(debouncedText')
            /\ IF cardText' # cardText
               THEN /\ cardPc' = "effect"
                    /\ textChanges' = IF isVisible THEN textChanges + 1 ELSE textChanges
               ELSE UNCHANGED <<cardPc, textChanges>>
       ELSE UNCHANGED <<cardText, cardPc, textChanges>>
    /\ UNCHANGED <<inputText, debounceTimerRef, timerSeq, debouncePc>>
    /\ UNCHANGED <<isVisible, rendered, error, observing, renderCalls, lastResult,
                   intersected>>
    /\ UNCHANGED <<rendererVars, viewVars, loaderVars>>

NextText ==
    \/ DebounceMount
    \/ \E value \in InputTexts : SetText(value)
    \/ DebouncedTextReachesCard
    \/ \E outcome \in RenderOutcomes : CardMount(outcome)
    \/ \E isIntersecting \in BOOLEAN : Intersect(isIntersecting)
    \/ \E outcome \in RenderOutcomes : RenderEffect(outcome)
    \/ CardUnmount

InitText == RenderersLoaded /\ CardConstructed /\ AppConstructed

SpecText == InitText /\ [][NextText]_vars

\* C24: the text of a card is never the empty string: it is the debounced
\* text when that is not empty and 'Hello' otherwise, whatever was typed;
\* so every call of a render function by the card (renderFn(text,
\* renderKey) of the render effect) has a text that is not empty.
C24_NeverRendersEmptyString ==
    /\ [](cardText # << >>)
    /\ [](cardPc \in {"mounted", "effect"} =>
            cardText = IF debouncedText = << >> THEN Hello ELSE debouncedText)
    /\ [][renderCalls' # renderCalls =>
            /\ cardText # << >>
            /\ cardText' = cardText
            /\ debouncedText # << >> => cardText = debouncedText]_vars

\* the input was cleared after another text had reached the card, the
\* empty text was published, and the visible card has rendered again, with
\* 'Hello'
C24_Witness ==
    /\ inputText = << >>
    /\ debouncedText = << >>
    /\ fired > 1
    /\ cardText = Hello
    /\ cardPc = "mounted"
    /\ isVisible
    /\ textChanges > 1
    /\ renderCalls > 2

====
